---- MODULE Spec2Model ----
(***************************************************************************)
(* Model of txt-frequency (src/main.go): a text file is scanned line by    *)
(* line, four regular expressions extract Chinese characters, Chinese      *)
(* words, English words and English phrases, each category is counted in a *)
(* frequency map and appended to a list, two maps are ranked by frequency  *)
(* and four output files are written.                                      *)
(*                                                                         *)
(* A string is a sequence of characters; a character is a one-character    *)
(* string, except the Han code points, which are written by their code     *)
(* point name ("U4E2D").                                                   *)
(***************************************************************************)
EXTENDS Integers, Sequences, FiniteSets, TLC

(***************************************************************************)
(* Characters and the character classes of the regular expressions.        *)
(***************************************************************************)
Han == {"U4E2D", "U6587", "U4F60", "U597D", "U4E16", "U754C"}

Lower == {"a", "b", "c", "d", "e", "f", "g", "h", "i", "j", "k", "l", "m",
          "n", "o", "p", "q", "r", "s", "t", "u", "v", "w", "x", "y", "z"}

Upper == {"A", "B", "C", "D", "E", "F", "G", "H", "I", "J", "K", "L", "M",
          "N", "O", "P", "Q", "R", "S", "T", "U", "V", "W", "X", "Y", "Z"}

Digit == {"0", "1", "2", "3", "4", "5", "6", "7", "8", "9"}

Space == {" ", "\t", "\f", "\r"}

\* [\p{Han}]
IsHan(c) == c \in Han

\* [a-zA-Z0-9]
IsAlnum(c) == c \in Lower \cup Upper \cup Digit

\* \w
IsWordChar(c) == IsAlnum(c) \/ c = "_"

\* [a-zA-Z0-9']
IsWordClass(c) == IsAlnum(c) \/ c = "'"

\* [\w\s'-]
IsPhraseClass(c) == IsWordChar(c) \/ c \in Space \/ c = "'" \/ c = "-"

\* \b at position i of s: between s[i-1] and s[i], the ends of s counting
\* as non-word characters.
WordBoundary(s, i) ==
    ((i > 1) /\ IsWordChar(s[i - 1])) # ((i <= Len(s)) /\ IsWordChar(s[i]))

Max(S) == CHOOSE m \in S : \A k \in S : k <= m

\* Membership of c in the class named cls.
InClass(cls, c) ==
    CASE cls = "Han" -> IsHan(c)
      [] cls = "Word" -> IsWordClass(c)
      [] cls = "Phrase" -> IsPhraseClass(c)

\* The position after the longest run of characters of the class cls that
\* starts at position i of s (i itself when s[i] is not in the class).
RECURSIVE RunEnd(_, _, _)
RunEnd(cls, s, i) ==
    IF i <= Len(s) /\ InClass(cls, s[i]) THEN RunEnd(cls, s, i + 1) ELSE i

(***************************************************************************)
(* The four patterns.  Each, applied to (s, i), is the position after the  *)
(* match the pattern finds when it is tried at position i of s, 0 if       *)
(* none there; the preference among the matches at one position is the     *)
(* backtracking order of the pattern (greedy repetitions, the optional     *)
(* group tried before its omission).                                       *)
(***************************************************************************)
chineseCharacterRegex(s, i) == IF IsHan(s[i]) THEN i + 1 ELSE 0

\* Variant: the repetition is not greedy ([\p{Han}]+?).
chineseWordsRegexLazy(s, i) == IF IsHan(s[i]) THEN i + 1 ELSE 0

chineseWordsRegex(s, i) == IF IsHan(s[i]) THEN RunEnd("Han", s, i) ELSE 0

\* (?:-[a-zA-Z0-9']+)?\b tried after a first part that ends before e1.
HyphenGroupEnd(s, e1) ==
    IF e1 <= Len(s) /\ s[e1] = "-"
    THEN LET m2 == RunEnd("Word", s, e1 + 1)
             ok == {e2 \in (e1 + 2)..m2 : WordBoundary(s, e2)}
         IN  IF ok = {} THEN 0 ELSE Max(ok)
    ELSE 0

WordTailEnd(s, e1) ==
    LET g == HyphenGroupEnd(s, e1)
    IN  IF g # 0 THEN g ELSE IF WordBoundary(s, e1) THEN e1 ELSE 0

englishWordRegex(s, i) ==
    IF ~WordBoundary(s, i) THEN 0
    ELSE LET m  == RunEnd("Word", s, i)
             ok == {e1 \in (i + 1)..m : WordTailEnd(s, e1) # 0}
         IN  IF ok = {} THEN 0 ELSE WordTailEnd(s, Max(ok))

englishPhrasesRegex(s, i) ==
    IF ~(WordBoundary(s, i) /\ IsAlnum(s[i])) THEN 0
    ELSE LET m  == RunEnd("Phrase", s, i + 1)
             ok == {j \in (i + 1)..(m - 1) :
                        IsAlnum(s[j]) /\ WordBoundary(s, j + 1)}
         IN  IF ok = {} THEN 0 ELSE Max(ok) + 1

\* regexp.MustCompile(re): the pattern of that name, tried at position i of s.
MatchAt(re, s, i) ==
    CASE re = "chineseCharacterRegex" -> chineseCharacterRegex(s, i)
      [] re = "chineseWordsRegex" -> chineseWordsRegex(s, i)
      [] re = "englishWordRegex" -> englishWordRegex(s, i)
      [] re = "englishPhrasesRegex" -> englishPhrasesRegex(s, i)

\* regexp.FindAllString(line, -1): the successive non-overlapping matches,
\* each the leftmost one at or after the end of the one before.
RECURSIVE FindAllFrom(_, _, _)
FindAllFrom(re, s, pos) ==
    IF pos > Len(s) THEN << >>
    ELSE LET e == MatchAt(re, s, pos)
         IN  IF e = 0 THEN FindAllFrom(re, s, pos + 1)
             ELSE << SubSeq(s, pos, e - 1) >> \o FindAllFrom(re, s, e)

FindAllString(re, s) == FindAllFrom(re, s, 1)

(***************************************************************************)
(* Normalisation of the English keys.                                      *)
(***************************************************************************)
LowerOf(c) ==
    CASE c = "A" -> "a" [] c = "B" -> "b" [] c = "C" -> "c" [] c = "D" -> "d"
      [] c = "E" -> "e" [] c = "F" -> "f" [] c = "G" -> "g" [] c = "H" -> "h"
      [] c = "I" -> "i" [] c = "J" -> "j" [] c = "K" -> "k" [] c = "L" -> "l"
      [] c = "M" -> "m" [] c = "N" -> "n" [] c = "O" -> "o" [] c = "P" -> "p"
      [] c = "Q" -> "q" [] c = "R" -> "r" [] c = "S" -> "s" [] c = "T" -> "t"
      [] c = "U" -> "u" [] c = "V" -> "v" [] c = "W" -> "w" [] c = "X" -> "x"
      [] c = "Y" -> "y" [] c = "Z" -> "z" [] OTHER -> c

\* strings.ToLower
ToLower(s) == [i \in 1..Len(s) |-> LowerOf(s[i])]

\* strings.TrimSpace
RECURSIVE TrimLeft(_)
TrimLeft(s) ==
    IF s # << >> /\ (Head(s) \in Space \/ Head(s) = "\n") THEN TrimLeft(Tail(s))
    ELSE s

RECURSIVE TrimRight(_)
TrimRight(s) ==
    IF s # << >> /\ (s[Len(s)] \in Space \/ s[Len(s)] = "\n")
    THEN TrimRight(SubSeq(s, 1, Len(s) - 1))
    ELSE s

TrimSpace(s) == TrimRight(TrimLeft(s))

(***************************************************************************)
(* Frequency maps.                                                         *)
(***************************************************************************)
\* make(map[string]int)
EmptyMap == [k \in {} |-> 0]

\* Variant: a key already present is not counted again (m[k] = 1).
IncrOnce(m, k) == IF k \in DOMAIN m THEN m ELSE m @@ (k :> 1)

\* m[k]++
Incr(m, k) ==
    IF k \in DOMAIN m THEN [m EXCEPT ![k] = @ + 1] ELSE m @@ (k :> 1)

(***************************************************************************)
(* sortByFrequency.  The range over the map visits the keys in an order    *)
(* the runtime chooses: order is that enumeration.  sort.Slice on the few  *)
(* pairs of these models is the library's insertion sort.                  *)
(***************************************************************************)
\* The enumerations of a set of keys.
RECURSIVE Orders(_)
Orders(S) ==
    IF S = {} THEN { << >> }
    ELSE UNION { { << x >> \o t : t \in Orders(S \ {x}) } : x \in S }

\* Variant: the comparison is reversed.
LessAscending(p, q) == p.Value < q.Value

\* The comparison handed to sort.Slice.
Less(p, q) == p.Value > q.Value

\* Variant: the swap loses one of the two elements.
SwapClobber(a, i, j) == [a EXCEPT ![i] = a[j]]

Swap(a, i, j) == [a EXCEPT ![i] = a[j], ![j] = a[i]]

\* for j := i; j > first && less(a[j], a[j-1]); j-- { swap }
RECURSIVE SiftDown(_, _)
SiftDown(a, j) ==
    IF j > 1 /\ Less(a[j], a[j - 1]) THEN SiftDown(Swap(a, j, j - 1), j - 1)
    ELSE a

RECURSIVE InsertionSort(_, _)
InsertionSort(a, i) ==
    IF i > Len(a) THEN a ELSE InsertionSort(SiftDown(a, i), i + 1)

sortByFrequency(freqMap, order) ==
    LET sortedPairs == [i \in 1..Len(order) |->
                           [Key |-> order[i], Value |-> freqMap[order[i]]]]
        sorted      == InsertionSort(sortedPairs, 2)
    IN  [i \in 1..Len(sorted) |-> sorted[i].Key]

(***************************************************************************)
(* bufio.Scanner with the default split function (ScanLines).              *)
(***************************************************************************)
\* Index of the first "\n" of data, 0 when there is none.
RECURSIVE NewlineAt(_, _)
NewlineAt(data, i) ==
    IF i > Len(data) THEN 0
    ELSE IF data[i] = "\n" THEN i ELSE NewlineAt(data, i + 1)

\* dropCR
DropCR(s) ==
    IF s # << >> /\ s[Len(s)] = "\r" THEN SubSeq(s, 1, Len(s) - 1) ELSE s

\* The next line of the unread data: up to the first "\n", or all of it
\* when the last line is not terminated.
NextLine(data) ==
    LET n == NewlineAt(data, 1)
    IN  DropCR(IF n = 0 THEN data ELSE SubSeq(data, 1, n - 1))

\* What is left unread after that line.
AfterLine(data) ==
    LET n == NewlineAt(data, 1)
    IN  IF n = 0 THEN << >> ELSE SubSeq(data, n + 1, Len(data))

(***************************************************************************)
(* The run of main.                                                        *)
(***************************************************************************)
chineseFileDedup == "deduplicated_chinese.txt"
chineseFileDup   == "duplicated_chinese.txt"
englishFileDedup == "deduplicated_english.txt"
englishFileDup   == "duplicated_english.txt"

\* The output files in the order main writes them.
OutputFiles ==
    << chineseFileDedup, chineseFileDup, englishFileDedup, englishFileDup >>

\* A file that holds the given records.
FileOf(records) == [exists |-> TRUE, records |-> records]

\* A file that does not exist.
Absent == [exists |-> FALSE, records |-> << >>]

\* An output file left by an earlier run: one record.
PriorFile == FileOf(<< << "o", "l", "d" >> >>)

VARIABLES
    pc,                     \* where main is
    input,                  \* the content of the selected file
    unread,                 \* the part of it the scanner has not consumed
    line,                   \* the line of the current iteration
    loop,                   \* the for loop over matches main is in, 0..4
    matches,                \* the matches that loop has still to process
    chineseCharFreq, chineseWordsFreq, englishWordFreq, englishPhrasesFreq,
    chineseCharList, chineseWordsList, englishWordList, englishPhrasesList,
    chineseCharDedupSorted, englishWordDedupSorted,
    written,                \* number of writeToFile calls that have returned
    sinkResult,             \* what happened in each of them
    files,                  \* the output files
    stdout,                 \* the messages printed, each with its arguments
    freqMap, ranked         \* a map and the results of ranking it repeatedly

mapVars  == << chineseCharFreq, chineseWordsFreq, englishWordFreq,
               englishPhrasesFreq >>
listVars == << chineseCharList, chineseWordsList, englishWordList,
               englishPhrasesList >>
scanVars == << unread, line, loop, matches >>
sortVars == << chineseCharDedupSorted, englishWordDedupSorted >>
sinkVars == << written, sinkResult, files >>
rankVars == << freqMap, ranked >>
vars == << pc, input, scanVars, mapVars, listVars, sortVars, sinkVars,
           stdout, rankVars >>

\* The state when main starts: the selected file holds one of inputs, the
\* output files are all in one of the states befores, and freqMap is one of
\* tables.
InitWith(inputs, befores, tables) ==
    /\ pc = "select"
    /\ input \in inputs
    /\ unread = << >>
    /\ line = << >>
    /\ loop = 0
    /\ matches = << >>
    /\ chineseCharFreq = EmptyMap
    /\ chineseWordsFreq = EmptyMap
    /\ englishWordFreq = EmptyMap
    /\ englishPhrasesFreq = EmptyMap
    /\ chineseCharList = << >>
    /\ chineseWordsList = << >>
    /\ englishWordList = << >>
    /\ englishPhrasesList = << >>
    /\ chineseCharDedupSorted = << >>
    /\ englishWordDedupSorted = << >>
    /\ written = 0
    /\ sinkResult = << >>
    /\ \E before \in befores :
           files = [f \in {OutputFiles[i] : i \in 1..4} |-> before]
    /\ stdout = << >>
    /\ freqMap \in tables
    /\ ranked = << >>

\* dialog.File()...Load() and the two checks of its result.
SelectFile ==
    /\ pc = "select"
    /\ \E outcome \in {"error", "none", "selected"} :
         CASE outcome = "error" ->
                /\ stdout' = stdout \o << << "Select the input file:" >>,
                                          << "Error selecting input file" >> >>
                /\ pc' = "returned"
           [] outcome = "none" ->
                /\ stdout' = stdout \o << << "Select the input file:" >>,
                                          << "No input file selected." >> >>
                /\ pc' = "returned"
           [] outcome = "selected" ->
                /\ stdout' = stdout \o << << "Select the input file:" >>,
                                          << "Selected input file" >> >>
                /\ pc' = "open"
    /\ UNCHANGED << input, scanVars, mapVars, listVars, sortVars, sinkVars,
                    rankVars >>

\* os.Open(inputFile)
OpenFile ==
    /\ pc = "open"
    /\ \E ok \in BOOLEAN :
         IF ok
         THEN /\ pc' = "scan"
              /\ unread' = input
              /\ stdout' = stdout
         ELSE /\ pc' = "returned"
              /\ unread' = unread
              /\ stdout' = stdout \o << << "Error opening input file" >> >>
    /\ UNCHANGED << input, line, loop, matches, mapVars, listVars, sortVars,
                    sinkVars, rankVars >>

\* The matches of the k-th pattern in s.
MatchesOf(k, s) ==
    CASE k = 1 -> FindAllString("chineseCharacterRegex", s)
      [] k = 2 -> FindAllString("chineseWordsRegex", s)
      [] k = 3 -> FindAllString("englishWordRegex", s)
      [] k = 4 -> FindAllString("englishPhrasesRegex", s)

\* The first of the loops k..4 over the matches in s that has a match to
\* process, 0 when none has: the iteration over s is then over.
RECURSIVE LoopFrom(_, _)
LoopFrom(k, s) ==
    IF k > 4 THEN 0
    ELSE IF MatchesOf(k, s) # << >> THEN k ELSE LoopFrom(k + 1, s)

\* Control after the loops before k are done with line s.
Enter(k, s) ==
    LET n == LoopFrom(k, s)
    IN  /\ loop' = n
        /\ matches' = IF n = 0 THEN << >> ELSE MatchesOf(n, s)
        /\ line' = IF n = 0 THEN << >> ELSE s

\* Control after the body of loop k has processed the first of matches.
Advance(k) ==
    IF Tail(matches) # << >>
    THEN /\ matches' = Tail(matches)
         /\ UNCHANGED << line, loop >>
    ELSE Enter(k + 1, line)

\* scanner.Scan() returns true; line := scanner.Text()
ScanLine ==
    /\ pc = "scan"
    /\ loop = 0
    /\ unread # << >>
    /\ unread' = AfterLine(unread)
    /\ Enter(1, NextLine(unread))
    /\ UNCHANGED << pc, input, mapVars, listVars, sortVars, sinkVars, stdout,
                    rankVars >>

\* One iteration of the loop over chineseCharMatches.
ChineseCharStep ==
    /\ pc = "scan"
    /\ loop = 1
    /\ LET char == Head(matches)
       IN  /\ chineseCharFreq' = Incr(chineseCharFreq, char)
           /\ chineseCharList' = Append(chineseCharList, char)
    /\ Advance(1)
    /\ UNCHANGED << pc, input, unread, chineseWordsFreq, englishWordFreq,
                    englishPhrasesFreq, chineseWordsList, englishWordList,
                    englishPhrasesList, sortVars, sinkVars, stdout, rankVars >>

\* One iteration of the loop over chineseWordMatches.
ChineseWordStep ==
    /\ pc = "scan"
    /\ loop = 2
    /\ LET word == Head(matches)
       IN  /\ chineseWordsFreq' = Incr(chineseWordsFreq, word)
           /\ chineseWordsList' = Append(chineseWordsList, word)
    /\ Advance(2)
    /\ UNCHANGED << pc, input, unread, chineseCharFreq, englishWordFreq,
                    englishPhrasesFreq, chineseCharList, englishWordList,
                    englishPhrasesList, sortVars, sinkVars, stdout, rankVars >>

\* Variant: the word is counted under the key as written, not in lower case.
EnglishWordStepRawKey ==
    /\ pc = "scan"
    /\ loop = 3
    /\ LET word == Head(matches)
       IN  /\ englishWordFreq' = Incr(englishWordFreq, word)
           /\ englishWordList' = Append(englishWordList, word)
    /\ Advance(3)
    /\ UNCHANGED << pc, input, unread, chineseCharFreq, chineseWordsFreq,
                    englishPhrasesFreq, chineseCharList, chineseWordsList,
                    englishPhrasesList, sortVars, sinkVars, stdout, rankVars >>

\* One iteration of the loop over englishWordMatches.
EnglishWordStep ==
    /\ pc = "scan"
    /\ loop = 3
    /\ LET word == Head(matches)
           normalizedWord == ToLower(word)
       IN  /\ englishWordFreq' = Incr(englishWordFreq, normalizedWord)
           /\ englishWordList' = Append(englishWordList, word)
    /\ Advance(3)
    /\ UNCHANGED << pc, input, unread, chineseCharFreq, chineseWordsFreq,
                    englishPhrasesFreq, chineseCharList, chineseWordsList,
                    englishPhrasesList, sortVars, sinkVars, stdout, rankVars >>

\* One iteration of the loop over englishPhraseMatches.
EnglishPhraseStep ==
    /\ pc = "scan"
    /\ loop = 4
    /\ LET phrase == Head(matches)
           normalizedPhrase == ToLower(TrimSpace(phrase))
       IN  /\ englishPhrasesFreq' = Incr(englishPhrasesFreq, normalizedPhrase)
           /\ englishPhrasesList' = Append(englishPhrasesList, phrase)
    /\ Advance(4)
    /\ UNCHANGED << pc, input, unread, chineseCharFreq, chineseWordsFreq,
                    englishWordFreq, chineseCharList, chineseWordsList,
                    englishWordList, sortVars, sinkVars, stdout, rankVars >>

\* scanner.Scan() returns false at the end of the input; scanner.Err() is nil.
ScanEnd ==
    /\ pc = "scan"
    /\ loop = 0
    /\ unread = << >>
    /\ pc' = "sort"
    /\ UNCHANGED << input, scanVars, mapVars, listVars, sortVars, sinkVars,
                    stdout, rankVars >>

\* Variant: the read error is printed but main does not return.
ScanFailNoReturn ==
    /\ pc = "scan"
    /\ loop = 0
    /\ pc' = "sort"
    /\ stdout' = stdout \o << << "Error reading input file" >> >>
    /\ UNCHANGED << input, scanVars, mapVars, listVars, sortVars, sinkVars,
                    rankVars >>

\* scanner.Scan() returns false because reading failed (or a line is longer
\* than the scanner's buffer); scanner.Err() is not nil.
ScanFail ==
    /\ pc = "scan"
    /\ loop = 0
    /\ pc' = "returned"
    /\ stdout' = stdout \o << << "Error reading input file" >> >>
    /\ UNCHANGED << input, scanVars, mapVars, listVars, sortVars, sinkVars,
                    rankVars >>

\* The two calls of sortByFrequency.
SortLists ==
    /\ pc = "sort"
    /\ \E co \in Orders(DOMAIN chineseCharFreq) :
           chineseCharDedupSorted' = sortByFrequency(chineseCharFreq, co)
    /\ \E eo \in Orders(DOMAIN englishWordFreq) :
           englishWordDedupSorted' = sortByFrequency(englishWordFreq, eo)
    /\ pc' = "write"
    /\ UNCHANGED << input, scanVars, mapVars, listVars, sinkVars, stdout,
                    rankVars >>

\* The data main hands to the k-th call of writeToFile.
DataOf(k) ==
    CASE k = 1 -> chineseCharDedupSorted
      [] k = 2 -> chineseCharList
      [] k = 3 -> englishWordDedupSorted
      [] k = 4 -> englishWordList

\* The outcomes of one call of writeToFile: os.Create fails; or the file is
\* created and truncated and every write succeeds; or it is created and a
\* write or the flush fails after n records (no write is issued for no data).
SinkOutcomes(data) ==
    { [create |-> FALSE, io |-> FALSE, n |-> 0],
      [create |-> TRUE, io |-> TRUE, n |-> Len(data)] }
    \cup { [create |-> TRUE, io |-> FALSE, n |-> n] : n \in 0..(Len(data) - 1) }

\* Variant: the file is opened for appending, not created anew.
writeToFileAppend(filePath, data, o) ==
    IF ~o.create
    THEN /\ stdout' = stdout \o << << "Error creating file", filePath >> >>
         /\ files' = files
    ELSE /\ stdout' = stdout
         /\ files' = [files EXCEPT ![filePath] =
                          FileOf(files[filePath].records \o SubSeq(data, 1, o.n))]

writeToFile(filePath, data, o) ==
    IF ~o.create
    THEN /\ stdout' = stdout \o << << "Error creating file", filePath >> >>
         /\ files' = files
    ELSE /\ stdout' = stdout
         /\ files' = [files EXCEPT ![filePath] = FileOf(SubSeq(data, 1, o.n))]

\* Variant: main returns after a call of writeToFile that failed.
WriteOutputStopAtFailure ==
    /\ pc = "write"
    /\ written < 4
    /\ \E o \in SinkOutcomes(DataOf(written + 1)) :
         /\ writeToFile(OutputFiles[written + 1], DataOf(written + 1), o)
         /\ sinkResult' = Append(sinkResult, o)
         /\ pc' = IF o.create /\ o.io THEN pc ELSE "returned"
    /\ written' = written + 1
    /\ UNCHANGED << input, scanVars, mapVars, listVars, sortVars, rankVars >>

\* The next of the four calls of writeToFile.
WriteOutput ==
    /\ pc = "write"
    /\ written < 4
    /\ \E o \in SinkOutcomes(DataOf(written + 1)) :
         /\ writeToFile(OutputFiles[written + 1], DataOf(written + 1), o)
         /\ sinkResult' = Append(sinkResult, o)
    /\ written' = written + 1
    /\ UNCHANGED << pc, input, scanVars, mapVars, listVars, sortVars,
                    rankVars >>

\* fmt.Println(<< "All output files written successfully." >>)
Finish ==
    /\ pc = "write"
    /\ written = 4
    /\ stdout' = stdout \o << << "All output files written successfully." >> >>
    /\ pc' = "returned"
    /\ UNCHANGED << input, scanVars, mapVars, listVars, sortVars, sinkVars,
                    rankVars >>

Next ==
    \/ SelectFile
    \/ OpenFile
    \/ ScanLine
    \/ ChineseCharStep
    \/ ChineseWordStep
    \/ EnglishWordStep
    \/ EnglishPhraseStep
    \/ ScanEnd
    \/ ScanFail
    \/ SortLists
    \/ WriteOutput
    \/ Finish

(***************************************************************************)
(* Inputs and specifications.                                              *)
(***************************************************************************)
\* Every file of at most n characters of alphabet.
FilesOver(alphabet, n) == UNION { [1..k -> alphabet] : k \in 0..n }

MaxFileLen == 4
MaxSmallLen == 3

ScanAlphabet == {"U4E2D", "U6587", "a", "A", "'", "-", " ", "\n"}
SmallAlphabet == {"U4E2D", "a", "A", "\n"}

\* "cat cat dog"
CatCatDog == << "c", "a", "t", " ", "c", "a", "t", " ", "d", "o", "g" >>

\* "Cat\ncat\nDOG cat\n"
CatLines == << "C", "a", "t", "\n", "c", "a", "t", "\n",
               "D", "O", "G", " ", "c", "a", "t", "\n" >>

\* "Hello world, I'll visit micro-video apps. 你好世界"
HelloWorld ==
    << "H", "e", "l", "l", "o", " ", "w", "o", "r", "l", "d", ",", " ",
       "I", "'", "l", "l", " ", "v", "i", "s", "i", "t", " ",
       "m", "i", "c", "r", "o", "-", "v", "i", "d", "e", "o", " ",
       "a", "p", "p", "s", ".", " ", "U4F60", "U597D", "U4E16", "U754C" >>

\* "a-b-c 'a' x_y a- -b\r\n中a文文,a中b 7\n"
Mixed ==
    << "a", "-", "b", "-", "c", " ", "'", "a", "'", " ", "x", "_", "y", " ",
       "a", "-", " ", "-", "b", "\r", "\n",
       "U4E2D", "a", "U6587", "U6587", ",", "a", "U4E2D", "b", " ", "7", "\n" >>

ScanInputs ==
    FilesOver(ScanAlphabet, MaxFileLen) \cup {CatCatDog, CatLines, HelloWorld, Mixed}

RunInputs == FilesOver(SmallAlphabet, MaxSmallLen) \cup {CatCatDog, CatLines}

\* The whole run, over the small inputs.
Init == InitWith(RunInputs, {Absent, PriorFile}, {EmptyMap})

Spec == Init /\ [][Next]_vars

\* The scan alone, over the large inputs: the run up to the end of the input
\* or the failure to read it.
ScanInit == InitWith(ScanInputs, {PriorFile}, {EmptyMap})

ScanNext ==
    \/ SelectFile
    \/ OpenFile
    \/ ScanLine
    \/ ChineseCharStep
    \/ ChineseWordStep
    \/ EnglishWordStep
    \/ EnglishPhraseStep
    \/ ScanEnd
    \/ ScanFail

ScanSpec == ScanInit /\ [][ScanNext]_vars

\* sortByFrequency alone, called repeatedly on one map that does not change.
MaxKeys == 3
MaxCount == 2
MaxCalls == 2

KeyPool == << << "a" >>, << "b" >>, << "c" >>, << "d" >>, << "e" >> >>

Tables ==
    UNION { [K -> 1..MaxCount] : K \in SUBSET {KeyPool[i] : i \in 1..MaxKeys} }

RankInit == InitWith({<< >>}, {Absent}, Tables)

RankAgain ==
    /\ Len(ranked) < MaxCalls
    /\ \E order \in Orders(DOMAIN freqMap) :
           ranked' = Append(ranked, sortByFrequency(freqMap, order))
    /\ UNCHANGED << pc, input, scanVars, mapVars, listVars, sortVars, sinkVars,
                    stdout, freqMap >>

RankNext == RankAgain

RankSpec == RankInit /\ [][RankNext]_vars

(***************************************************************************)
(* Properties.                                                             *)
(***************************************************************************)
Range(f) == {f[x] : x \in DOMAIN f}

RECURSIVE SumOver(_, _)
SumOver(m, K) ==
    IF K = {} THEN 0
    ELSE LET k == CHOOSE x \in K : TRUE IN m[k] + SumOver(m, K \ {k})

\* The sum of the counts of a frequency map.
SumOfCounts(m) == SumOver(m, DOMAIN m)

\* The run stopped before the scan was complete.
InputFailed ==
    Range(stdout) \cap { << "Error selecting input file" >>,
                          << "No input file selected." >>,
                          << "Error opening input file" >>,
                          << "Error reading input file" >> } # {}

\* main printed its last message.
Succeeded == << "All output files written successfully." >> \in Range(stdout)

\* The lines of a text, as the scanner yields them.
RECURSIVE LinesOf(_)
LinesOf(data) ==
    IF data = << >> THEN << >>
    ELSE << NextLine(data) >> \o LinesOf(AfterLine(data))

\* The lines the scanner has yielded so far (once the input is open).
ConsumedLines == LinesOf(SubSeq(input, 1, Len(input) - Len(unread)))

RECURSIVE Concat(_)
Concat(ss) == IF ss = << >> THEN << >> ELSE Head(ss) \o Concat(Tail(ss))

\* C1: at every point of the scan, in each of the four categories, the counts
\* of the frequency map add up to the length of the list of that category.
CountsAddUpToListLength ==
    /\ SumOfCounts(chineseCharFreq) = Len(chineseCharList)
    /\ SumOfCounts(chineseWordsFreq) = Len(chineseWordsList)
    /\ SumOfCounts(englishWordFreq) = Len(englishWordList)
    /\ SumOfCounts(englishPhrasesFreq) = Len(englishPhrasesList)

\* A state in the middle of a line with tokens of all four categories counted
\* and a key counted more than once.
CountsWitness ==
    /\ pc = "scan"
    /\ loop = 4
    /\ chineseCharList # << >>
    /\ chineseWordsList # << >>
    /\ englishWordList # << >>
    /\ englishPhrasesList # << >>
    /\ \E k \in DOMAIN englishWordFreq : englishWordFreq[k] >= 2
    /\ \E k \in DOMAIN chineseCharFreq : chineseCharFreq[k] >= 2

\* C2: every list sortByFrequency returns holds each key of the map exactly
\* once and nothing else.
RankedIsThePermutationOfKeys ==
    \A c \in DOMAIN ranked :
        /\ Range(ranked[c]) = DOMAIN freqMap
        /\ Len(ranked[c]) = Cardinality(DOMAIN freqMap)
        /\ \A i, j \in DOMAIN ranked[c] : ranked[c][i] = ranked[c][j] => i = j

\* A map of three keys with different counts has been ranked.
RankedKeysWitness ==
    /\ ranked # << >>
    /\ Cardinality(DOMAIN freqMap) >= 3
    /\ Cardinality(Range(freqMap)) >= 2
    /\ Range(ranked[1]) = DOMAIN freqMap

\* C3: every list sortByFrequency returns is in non-increasing order of count.
RankedIsNonIncreasing ==
    \A c \in DOMAIN ranked :
        \A i \in 1..(Len(ranked[c]) - 1) :
            freqMap[ranked[c][i]] >= freqMap[ranked[c][i + 1]]

\* A ranking in which a key of the pool precedes an earlier key of the pool
\* because its count is greater.
RankedOrderWitness ==
    /\ ranked # << >>
    /\ Len(ranked[1]) >= 3
    /\ ranked[1][1] = KeyPool[3]
    /\ freqMap[ranked[1][1]] > freqMap[ranked[1][2]]

\* C4: all rankings of one unchanged map are the same list.
RankingIsDeterministic ==
    \A c, d \in DOMAIN ranked : ranked[c] = ranked[d]

\* No output file has been created, truncated or written, and writeToFile
\* has not been called.
OutputsUntouched ==
    /\ written = 0
    /\ \A f \in DOMAIN files : files[f] \in {Absent, PriorFile}

\* C5: until the whole input has been scanned without an error, and for good
\* when the input was not selected, not opened or not read to its end, no
\* output file is touched.
NoOutputUnlessScanned ==
    (pc \in {"select", "open", "scan", "sort"} \/ InputFailed) => OutputsUntouched

\* The run stopped at a read error after it had scanned some tokens.
ReadFailureWitness ==
    /\ pc = "returned"
    /\ stdout[Len(stdout)] = << "Error reading input file" >>
    /\ englishWordList # << >>
    /\ chineseCharList # << >>
    /\ OutputsUntouched

\* The k-th call of writeToFile created its file and wrote all its records.
SinkOk(k) == sinkResult[k].create /\ sinkResult[k].io

\* C6: after a successful scan main calls writeToFile four times whatever
\* the earlier calls met, and every output file that could be created and
\* written holds exactly its list.
EverySinkIsAttempted ==
    /\ (pc = "returned" /\ ~InputFailed) => written = 4
    /\ \A k \in 1..written :
           SinkOk(k) => files[OutputFiles[k]] = FileOf(DataOf(k))

\* The first file could not be created, the second not be written, and the
\* last two hold their lists.
SinkIndependenceWitness ==
    /\ pc = "returned"
    /\ written = 4
    /\ ~sinkResult[1].create
    /\ sinkResult[2].create /\ ~sinkResult[2].io
    /\ SinkOk(3) /\ SinkOk(4)
    /\ englishWordDedupSorted # << >>
    /\ files[englishFileDedup] = FileOf(englishWordDedupSorted)
    /\ files[englishFileDup] = FileOf(englishWordList)

\* C7: when the run is over, every output file that could not be created or
\* not be written has a message about it, and the message of success is not
\* printed if there is one.
SinkFailuresAreReported ==
    (pc = "returned" /\ written = 4) =>
        \A k \in 1..4 :
            ~SinkOk(k) =>
                /\ \E i \in DOMAIN stdout : OutputFiles[k] \in Range(stdout[i])
                /\ ~Succeeded

\* The words of a text: the matches of the word pattern in its lines, in
\* the order of the lines.
RECURSIVE WordsOfLines(_)
WordsOfLines(ls) ==
    IF ls = << >> THEN << >>
    ELSE FindAllString("englishWordRegex", Head(ls)) \o WordsOfLines(Tail(ls))

\* Lower case, letter by letter.
Folded(s) ==
    [i \in 1..Len(s) |->
        IF s[i] \in Upper
        THEN CHOOSE c \in Lower : \E n \in 1..26 :
                 /\ << "A", "B", "C", "D", "E", "F", "G", "H", "I", "J", "K",
                       "L", "M", "N", "O", "P", "Q", "R", "S", "T", "U", "V",
                       "W", "X", "Y", "Z" >>[n] = s[i]
                 /\ << "a", "b", "c", "d", "e", "f", "g", "h", "i", "j", "k",
                       "l", "m", "n", "o", "p", "q", "r", "s", "t", "u", "v",
                       "w", "x", "y", "z" >>[n] = c
        ELSE s[i]]

Cat == << "c", "a", "t" >>
Dog == << "d", "o", "g" >>

\* C8: between two lines and after the last, englishWordList holds the words
\* of all the lines scanned so far as they were written, in their order;
\* at every point the count of a key is the number of entries of the list
\* whose lower case form is the key; and "cat cat dog" gives cat 2, dog 1,
\* the ranking cat, dog and the list cat, cat, dog.
EnglishWordsAccumulate ==
    /\ (loop = 0 /\ pc \in {"scan", "sort", "write"}) =>
           englishWordList = WordsOfLines(ConsumedLines)
    /\ \A i \in DOMAIN englishWordList :
           Folded(englishWordList[i]) \in DOMAIN englishWordFreq
    /\ \A k \in DOMAIN englishWordFreq :
           englishWordFreq[k] =
               Cardinality({i \in DOMAIN englishWordList :
                                Folded(englishWordList[i]) = k})
    /\ (input = CatCatDog /\ Succeeded) =>
           /\ englishWordFreq = (Cat :> 2) @@ (Dog :> 1)
           /\ englishWordDedupSorted = << Cat, Dog >>
           /\ englishWordList = << Cat, Cat, Dog >>

\* Three lines have been scanned, with a word written in two ways in
\* different lines and counted three times.
EnglishWordsWitness ==
    /\ pc = "sort"
    /\ input = CatLines
    /\ Len(ConsumedLines) = 3
    /\ englishWordList = << << "C", "a", "t" >>, Cat, << "D", "O", "G" >>, Cat >>
    /\ englishWordFreq = (Cat :> 3) @@ (Dog :> 1)

HanRuns(s) ==
    LET starts == {i \in 1..Len(s) :
                       IsHan(s[i]) /\ (i = 1 \/ ~IsHan(s[i - 1]))}
        endOf(i) == CHOOSE j \in i..Len(s) :
                        /\ \A x \in i..j : IsHan(s[x])
                        /\ (j = Len(s) \/ ~IsHan(s[j + 1]))
        nth(k) == CHOOSE i \in starts : Cardinality({x \in starts : x < i}) = k - 1
    IN  [k \in 1..Cardinality(starts) |-> SubSeq(s, nth(k), endOf(nth(k)))]

RECURSIVE HanRunsOfLines(_)
HanRunsOfLines(ls) ==
    IF ls = << >> THEN << >> ELSE HanRuns(Head(ls)) \o HanRunsOfLines(Tail(ls))

\* C10: between two lines and after the last, chineseCharList is the
\* concatenation of the tokens of chineseWordsList, code point by code point,
\* and chineseWordsList is the maximal runs of Han code points of the lines
\* scanned so far (none empty, none next to another Han code point).
CharsAreTheWordsFlattened ==
    (loop = 0 /\ pc \in {"scan", "sort"}) =>
        /\ Concat(chineseCharList) = Concat(chineseWordsList)
        /\ \A i \in DOMAIN chineseCharList : Len(chineseCharList[i]) = 1
        /\ \A i \in DOMAIN chineseWordsList : chineseWordsList[i] # << >>
        /\ chineseWordsList = HanRunsOfLines(ConsumedLines)

\* Two lines have been scanned that hold three runs, one of them of two code
\* points.
FlattenWitness ==
    /\ pc = "scan"
    /\ loop = 0
    /\ Len(ConsumedLines) = 2
    /\ Len(chineseWordsList) = 3
    /\ Len(chineseCharList) = 4
    /\ \E i \in DOMAIN chineseWordsList : Len(chineseWordsList[i]) = 2

====
